---- MODULE Spec2Model ----
(***************************************************************************)
(* Model of support/fitsolarflux2.py: a piecewise Planck fit to the E490   *)
(* solar spectrum.  The script is a straight-line pipeline                 *)
(*   load -> smooth -> merge -> allocate -> band loop -> plot.             *)
(*                                                                         *)
(* Wavelengths are integers in units of 0.05 um, the coarsest unit in      *)
(* which every band edge of the script is an integer (0.25 um = 5,         *)
(* 9 um = 180, 1000 um = 20000).  Flux densities are integers in units of  *)
(* c * 1e-26 Jy per (W/m2/um * (0.05 um)^2), so that line 10 is the exact  *)
(* product irr * w^2.                                                      *)
(*                                                                         *)
(* mskpy.calib.e490, mskpy.planckfit, mskpy.Planck and matplotlib are      *)
(* libraries outside the repository: the dataset is drawn from bounded     *)
(* sets, the solver returns any pair of FitResults or raises, and a value  *)
(* scale * Planck(w, T) is kept as the term [scale, wave, temp].           *)
(***************************************************************************)
EXTENDS Integers, Sequences, FiniteSets, TLC

VARIABLES
    source,   \* what mskpy.calib.e490() will return: [w, irr]
    pc,       \* position of the script
    w,        \* wavelength grid (line 9)
    s,        \* flux density in Jy (lines 9-10)
    ss,       \* smoothed flux (line 13)
    S,        \* merged spectrum (line 15)
    wr,       \* band edges (line 17)
    T, C,     \* per-band temperature and scale (line 18)
    Sfit,     \* assembled fit (line 19)
    i,        \* loop variable of line 20 (0-based, as in the script)
    masks,    \* history: masks[b+1] is the mask j computed for band b
    fitted,   \* history: the bands handed to planckfit, in call order
    writes,   \* history: writes[k] counts the assignments to Sfit[k]
    plots,    \* history: number of figures drawn
    err       \* the exception that ended the script, if any

vars == <<source, pc, w, s, ss, S, wr, T, C, Sfit, i, masks, fitted,
          writes, plots, err>>

-----------------------------------------------------------------------------
(* Bounds of the model *)

MaxLen == 2      \* samples in the dataset
MaxIrr == 2      \* irradiance values 1..MaxIrr
MaxEdges == 3    \* band edges in the generic-edge specification

(* Wavelengths of the datasets of Spec: the first edge, two adjacent       *)
(* interior edges, the merge cutoff and the sample below it, the last edge *)
(* and one sample beyond it.                                               *)
WaveGrid == {0, 5, 6, 179, 180, 20000, 20001}

(* Edges and wavelengths of the generic-edge specification: 20 and 40 are  *)
(* 1 um and 2 um, so <<0, 20, 40>> is the edge list [0, 1, 2]; 10, 30 and  *)
(* 100 are the wavelengths 0.5, 1.5 and 5.0.                               *)
EdgeGrid == {0, 20, 40, 60}
MaskWaveGrid == {0, 10, 20, 30, 40, 100}

(* What the solver may return as (temperature, scale): the initial guess   *)
(* of line 22 and one other pair; both scales are positive, so a fitted    *)
(* value scale * Planck(w, T) is never the zero Sfit starts from.          *)
FitResults == {<<5800, 1>>, <<4000, 2>>}

IncSeqs(G, lo, hi) ==
    {q \in UNION {[1..m -> G] : m \in lo..hi} :
        \A a \in 1..(Len(q) - 1) : q[a] < q[a + 1]}

Datasets(G) ==
    UNION {{[w |-> q, irr |-> f] : f \in [1..Len(q) -> 1..MaxIrr]} :
              q \in IncSeqs(G, 1, MaxLen)}

-----------------------------------------------------------------------------
(* Program constants and pure helpers *)

BandEdges == <<0, 5, 6, 8, 12, 20, 60, 300, 20000>>

Cutoff == 180

NoError == [kind |-> "none", band |-> -1]

Zero == [scale |-> 0, wave |-> 0, temp |-> 0]

IsZero(v) == v.scale = 0

zeros(n) == [k \in 1..n |-> 0]

(* mskpy.Gaussian(linspace(0, 1, 100), 0.5, 0.1) divided by its sum, in    *)
(* units of 1/10000.                                                       *)
kern ==
    << 0, 0, 0, 0, 0, 0, 0, 0, 0, 0,
       0, 0, 0, 0, 1, 1, 1, 2, 3, 4,
       5, 6, 9, 11, 15, 19, 24, 30, 38, 47,
       58, 70, 84, 100, 118, 138, 159, 182, 205, 230,
       254, 279, 302, 325, 345, 363, 379, 390, 398, 402,
       402, 398, 390, 379, 363, 345, 325, 302, 279, 254,
       230, 205, 182, 159, 138, 118, 100, 84, 70, 58,
       47, 38, 30, 24, 19, 15, 11, 9, 6, 5,
       4, 3, 2, 1, 1, 1, 0, 0, 0, 0,
       0, 0, 0, 0, 0, 0, 0, 0, 0, 0 >>

(* x * kw / 10000 rounded down, without leaving 32 bits *)
KernTimes(x, kw) == (x \div 10000) * kw + ((x % 10000) * kw) \div 10000

RECURSIVE SumTo(_, _)
SumTo(f, n) == IF n = 0 THEN 0 ELSE SumTo(f, n - 1) + f[n]

(* signal.convolve(x, kern, mode='same'): the full convolution, cut to     *)
(* Len(x) samples starting (Len(kern) - 1) div 2 samples in.               *)
convolve(x, kr) ==
    LET start == (Len(kr) - 1) \div 2
        term(k, a) == IF k - a + start >= 0 /\ k - a + start < Len(kr)
                        THEN KernTimes(x[a], kr[k - a + start + 1])
                        ELSE 0
    IN  [k \in 1..Len(x) |-> SumTo([a \in 1..Len(x) |-> term(k, a)], Len(x))]

(* x[m] for a boolean mask m, kept as the set of selected positions *)
RECURSIVE BoolIndex(_, _)
BoolIndex(x, m) ==
    IF x = <<>> THEN <<>>
    ELSE BoolIndex(SubSeq(x, 1, Len(x) - 1), m)
           \o (IF Len(x) \in m THEN <<x[Len(x)]>> ELSE <<>>)

(* line 15: S = r_[ss[w < 9], s[w >= 9]] *)
Merge_leq(wl, sm, raw) ==
    BoolIndex(sm, {k \in DOMAIN wl : wl[k] <= Cutoff})
      \o BoolIndex(raw, {k \in DOMAIN wl : wl[k] >= Cutoff})

Merge(wl, sm, raw) ==
    BoolIndex(sm, {k \in DOMAIN wl : wl[k] < Cutoff})
      \o BoolIndex(raw, {k \in DOMAIN wl : wl[k] >= Cutoff})

(* line 21: j = (w > wr[i]) * (w <= wr[i + 1]) *)
Mask_closedLower(wl, lo, hi) == {k \in DOMAIN wl : wl[k] >= lo /\ wl[k] <= hi}

Mask_lowerClosedUpperOpen(wl, lo, hi) ==
    {k \in DOMAIN wl : wl[k] >= lo /\ wl[k] < hi}

Mask(wl, lo, hi) == {k \in DOMAIN wl : wl[k] > lo /\ wl[k] <= hi}

(* mskpy.Planck(wave, temp) * scale *)
PlanckTimes(wave, temp, scale) ==
    IF scale = 0 THEN Zero ELSE [scale |-> scale, wave |-> wave, temp |-> temp]

(* line 24: Sfit[j] = mskpy.Planck(w[j], T[i]) * C[i] *)
AssignMasked_all(fit, wl, j, temp, scale) ==
    [k \in DOMAIN fit |-> PlanckTimes(wl[k], temp, scale)]

AssignMasked(fit, wl, j, temp, scale) ==
    [k \in DOMAIN fit |->
        IF k \in j THEN PlanckTimes(wl[k], temp, scale) ELSE fit[k]]

NBands == Len(wr) - 1

-----------------------------------------------------------------------------
(* The script *)

InitRest ==
    /\ pc = "load"
    /\ w = <<>> /\ s = <<>> /\ ss = <<>> /\ S = <<>>
    /\ T = <<>> /\ C = <<>> /\ Sfit = <<>>
    /\ i = 0
    /\ masks = <<>> /\ fitted = <<>> /\ writes = <<>>
    /\ plots = 0
    /\ err = NoError

Init ==
    /\ source \in Datasets(WaveGrid)
    /\ wr = BandEdges
    /\ InitRest

(* Any strictly increasing edge list with at least two elements *)
InitMask ==
    /\ source \in Datasets(MaskWaveGrid)
    /\ wr \in IncSeqs(EdgeGrid, 2, MaxEdges)
    /\ InitRest

(* lines 9-10 *)
Load ==
    /\ pc = "load"
    /\ w' = source.w
    /\ s' = [k \in DOMAIN source.w |-> source.irr[k] * source.w[k] * source.w[k]]
    /\ pc' = "smooth"
    /\ UNCHANGED <<source, ss, S, wr, T, C, Sfit, i, masks, fitted, writes,
                   plots, err>>

(* line 9 raising: the reference spectrum is unavailable or malformed *)
LoadFail ==
    /\ pc = "load"
    /\ pc' = "failed"
    /\ err' = [kind |-> "data source", band |-> -1]
    /\ UNCHANGED <<source, w, s, ss, S, wr, T, C, Sfit, i, masks, fitted,
                   writes, plots>>

(* lines 11-13 *)
Smooth ==
    /\ pc = "smooth"
    /\ ss' = convolve(s, kern)
    /\ pc' = "merge"
    /\ UNCHANGED <<source, w, s, S, wr, T, C, Sfit, i, masks, fitted, writes,
                   plots, err>>

(* line 15 *)
MergeStep ==
    /\ pc = "merge"
    /\ S' = Merge(w, ss, s)
    /\ pc' = "alloc"
    /\ UNCHANGED <<source, w, s, ss, wr, T, C, Sfit, i, masks, fitted, writes,
                   plots, err>>

(* lines 17-19 *)
Alloc ==
    /\ pc = "alloc"
    /\ C' = zeros(NBands)
    /\ T' = zeros(NBands)
    /\ Sfit' = [k \in 1..Len(S) |-> Zero]
    /\ writes' = zeros(Len(S))
    /\ i' = 0
    /\ pc' = "loop"
    /\ UNCHANGED <<source, w, s, ss, S, wr, masks, fitted, plots, err>>

(* lines 20-24, planckfit returning: one iteration of the band loop *)
BandFit_skip ==
    /\ pc = "loop"
    /\ i < NBands
    /\ LET j == Mask(w, wr[i + 1], wr[i + 2])
       IN  \E r \in FitResults :
              /\ masks' = Append(masks, j)
              /\ fitted' = Append(fitted, i)
              /\ T' = [T EXCEPT ![i + 1] = r[1]]
              /\ C' = [C EXCEPT ![i + 1] = r[2]]
              /\ Sfit' = AssignMasked(Sfit, w, j, r[1], r[2])
              /\ writes' = [k \in DOMAIN writes |->
                               IF k \in j THEN writes[k] + 1 ELSE writes[k]]
    /\ i' = IF i + 2 <= NBands THEN i + 2 ELSE i + 1
    /\ pc' = IF i' = NBands THEN "plot" ELSE "loop"
    /\ UNCHANGED <<source, w, s, ss, S, wr, plots, err>>

BandFit ==
    /\ pc = "loop"
    /\ i < NBands
    /\ LET j == Mask(w, wr[i + 1], wr[i + 2])
       IN  \E r \in FitResults :
              /\ masks' = Append(masks, j)
              /\ fitted' = Append(fitted, i)
              /\ T' = [T EXCEPT ![i + 1] = r[1]]
              /\ C' = [C EXCEPT ![i + 1] = r[2]]
              /\ Sfit' = AssignMasked(Sfit, w, j, r[1], r[2])
              /\ writes' = [k \in DOMAIN writes |->
                               IF k \in j THEN writes[k] + 1 ELSE writes[k]]
    /\ i' = i + 1
    /\ pc' = IF i + 1 = NBands THEN "plot" ELSE "loop"
    /\ UNCHANGED <<source, w, s, ss, S, wr, plots, err>>

(* lines 20-22, planckfit raising: the exception ends the script *)
BandFitFail_swallowed ==
    /\ pc = "loop"
    /\ i < NBands
    /\ masks' = Append(masks, Mask(w, wr[i + 1], wr[i + 2]))
    /\ fitted' = Append(fitted, i)
    /\ err' = [kind |-> "solver", band |-> i]
    /\ i' = i + 1
    /\ pc' = IF i + 1 = NBands THEN "plot" ELSE "loop"
    /\ UNCHANGED <<source, w, s, ss, S, wr, T, C, Sfit, writes, plots>>

BandFitFail ==
    /\ pc = "loop"
    /\ i < NBands
    /\ masks' = Append(masks, Mask(w, wr[i + 1], wr[i + 2]))
    /\ fitted' = Append(fitted, i)
    /\ err' = [kind |-> "solver", band |-> i]
    /\ pc' = "failed"
    /\ UNCHANGED <<source, w, s, ss, S, wr, T, C, Sfit, i, writes, plots>>

(* lines 29-34 *)
Plot ==
    /\ pc = "plot"
    /\ plots' = plots + 1
    /\ pc' = "done"
    /\ UNCHANGED <<source, w, s, ss, S, wr, T, C, Sfit, i, masks, fitted,
                   writes, err>>

Next ==
    \/ Load
    \/ LoadFail
    \/ Smooth
    \/ MergeStep
    \/ Alloc
    \/ BandFit
    \/ BandFitFail
    \/ Plot

Spec == Init /\ [][Next]_vars

(* The script is one thread that runs to its end: every step is taken. *)
FairSpec == Spec /\ WF_vars(Next)

(* The pipeline over any valid edge list *)
SpecMask == InitMask /\ [][Next]_vars

-----------------------------------------------------------------------------
(* Properties *)

LoopDone == pc \in {"plot", "done"}

FirstEdge == wr[1]
LastEdge == wr[Len(wr)]

InDomain(k) == w[k] > FirstEdge /\ w[k] <= LastEdge

BandsOf(k) == {p \in DOMAIN masks : k \in masks[p]}

(* C1: for every strictly increasing edge list with at least two elements, *)
(* the masks the band loop computes are pairwise disjoint, and once the    *)
(* loop is over their union is the set of samples with wavelength above    *)
(* the first edge and at most the last edge; with edges [0, 1, 2] and      *)
(* wavelengths [0.5, 1.5], band 0 selects {0.5} and band 1 selects {1.5}.  *)
C1_MasksPartition ==
    /\ \A p, q \in DOMAIN masks : p # q => masks[p] \cap masks[q] = {}
    /\ LoopDone =>
          UNION {masks[p] : p \in DOMAIN masks} = {k \in DOMAIN w : InDomain(k)}
    /\ (LoopDone /\ wr = <<0, 20, 40>> /\ w = <<10, 30>>) =>
          masks = <<{1}, {2}>>

C1_Witness ==
    /\ pc = "done"
    /\ wr = <<0, 20, 40>>
    /\ w = <<10, 30>>
    /\ masks = <<{1}, {2}>>

(* C2: the merged spectrum has the length of the input, and sample k of it *)
(* is the smoothed flux where w[k] < 9 um and the original flux elsewhere, *)
(* a sample at exactly 9 um included.                                      *)
C2_MergeSelects ==
    pc \in {"alloc", "loop", "plot", "done"} =>
        /\ Len(S) = Len(w)
        /\ \A k \in DOMAIN w :
              S[k] = IF w[k] < Cutoff THEN ss[k] ELSE s[k]

C2_Witness ==
    /\ pc = "alloc"
    /\ w = <<179, 180>>
    /\ ss[1] # s[1] /\ ss[2] # s[2]
    /\ S = <<ss[1], s[2]>>

(* C3: a band whose mask selects no sample ends the run with an explicit   *)
(* empty-band condition naming the band, and the band is never handed to   *)
(* the solver.                                                             *)
C3_EmptyBandReported ==
    \A p \in DOMAIN masks :
        masks[p] = {} =>
            /\ pc = "failed"
            /\ err.kind = "empty band"
            /\ err.band = p - 1
            /\ \A f \in DOMAIN fitted : fitted[f] # p - 1

(* C4: when some sample lies in no band, the run does not reach the plot   *)
(* with that position of the assembled fit still zero.                     *)
C4_UncoveredFlagged ==
    \A k \in DOMAIN w :
        ~InDomain(k) => ~(plots > 0 /\ err = NoError /\ IsZero(Sfit[k]))

(* C5: the assembled fit has the length of the input spectrum, no position *)
(* of it is written more than once, and once the loop is over every        *)
(* position covered by some mask has been written exactly once.            *)
C5_WrittenOnce ==
    /\ pc \in {"loop", "plot", "done"} => Len(Sfit) = Len(w)
    /\ \A k \in DOMAIN writes : writes[k] <= 1
    /\ LoopDone => \A k \in DOMAIN writes : BandsOf(k) # {} => writes[k] = 1

C5_Witness ==
    /\ pc = "done"
    /\ w = <<5, 6>>
    /\ writes = <<1, 1>>

(* C6: once the loop is over every input sample, wherever its wavelength,  *)
(* is in exactly one band and holds a non-zero fitted value.               *)
C6_AllCoveredNonZero ==
    LoopDone =>
        \A k \in DOMAIN w :
            Cardinality(BandsOf(k)) = 1 /\ ~IsZero(Sfit[k])

C8_BoundaryRule ==
    /\ wr = <<0, 5, 6, 8, 12, 20, 60, 300, 20000>>
    /\ \A k \in DOMAIN w :
          /\ w[k] = 0 => BandsOf(k) = {}
          /\ (w[k] = 20000 /\ LoopDone) => BandsOf(k) = {8}
          /\ \A e \in 2..8 :
                w[k] = wr[e] => BandsOf(k) = {e - 1} \cap DOMAIN masks

C8_Witness ==
    /\ pc = "done"
    /\ w = <<6, 20000>>
    /\ masks[2] = {1}
    /\ masks[8] = {2}

Terminated == pc \in {"done", "failed"}

PipelineOrder ==
    \/ pc = "load" /\ pc' \in {"smooth", "failed"}
    \/ pc = "smooth" /\ pc' = "merge"
    \/ pc = "merge" /\ pc' = "alloc"
    \/ pc = "alloc" /\ pc' = "loop" /\ fitted' = <<>>
    \/ /\ pc = "loop"
       /\ fitted' = Append(fitted, Len(fitted))
       /\ pc' \in {IF Len(fitted') = 8 THEN "plot" ELSE "loop", "failed"}
    \/ pc = "plot" /\ pc' = "done" /\ plots = 0 /\ plots' = 1

(* C9: the run is load, smooth, merge, then the 8 bands in increasing      *)
(* order, each fitted at most once, then one plot; it always terminates;   *)
(* and a failure of the data source ends it before any band is fitted.     *)
C9_AcyclicPipeline ==
    /\ [][PipelineOrder]_vars
    /\ [](pc = "done" => fitted = [b \in 1..8 |-> b - 1] /\ plots = 1)
    /\ [](err.kind = "data source" => pc = "failed" /\ fitted = <<>>)
    /\ <>Terminated

C9_Witness ==
    /\ pc = "done"
    /\ fitted = <<0, 1, 2, 3, 4, 5, 6, 7>>
    /\ plots = 1

BandFrame ==
    pc = "loop" =>
        LET j == masks'[Len(masks')]
        IN  /\ \A k \in DOMAIN Sfit : k \notin j => Sfit'[k] = Sfit[k]
            /\ DOMAIN Sfit' = DOMAIN Sfit
            /\ \A b \in DOMAIN T : b # i + 1 => T'[b] = T[b] /\ C'[b] = C[b]
            /\ DOMAIN T' = DOMAIN T /\ DOMAIN C' = DOMAIN C
            /\ w' = w
            /\ S' = S
            /\ pc' = "plot" =>
                  \A k \in DOMAIN Sfit' :
                      (\A p \in DOMAIN masks' : k \notin masks'[p])
                          => Sfit'[k] = Zero

(* C10: iteration i of the band loop writes only T[i], C[i] and the        *)
(* positions of Sfit its own mask selects; the other positions, the other  *)
(* bands' results, w and S are unchanged, so a position in no band still   *)
(* holds its initial zero after the loop.                                  *)
C10_BandFrame == [][BandFrame]_vars

C10_Witness ==
    /\ pc = "done"
    /\ w = <<5, 20001>>
    /\ ~IsZero(Sfit[1])
    /\ Sfit[2] = Zero
    /\ T[1] # T[2]

====
